---------------------------- MODULE Spec2Model ----------------------------
(***************************************************************************)
(* Model of bin/StripChromeSymbols.py: a sequential script that scans an   *)
(* ETW trace for chrome symbol references, retrieves and strips the PDBs   *)
(* into temporary directories, and drives xperf to build .symcache files.  *)
(*                                                                         *)
(* Paths are sequences of path components.  The file system is the set of  *)
(* paths that exist.  The output of the external tools (xperf, Retrieve-   *)
(* Symbols.exe, pdbcopy.exe) is an input of the script and is drawn from   *)
(* small sets.  One process run of the script is followed by further runs  *)
(* over the same trace and the file system the previous run left behind.   *)
(***************************************************************************)
EXTENDS Naturals, Sequences, FiniteSets, TLC

\* ------------------------------------------------------------------ bounds
\* Longest dump of the trace (number of lines xperf prints).
MaxLines == 2
\* Number of consecutive runs of the script over the same trace.
MaxRuns == 2

\* --------------------------------------------------------- path functions
\* os.path.split(p): (head, tail)
Split(p) == <<SubSeq(p, 1, Len(p) - 1), p[Len(p)]>>

\* os.path.join(d, name)
Join(d, name) == Append(d, name)

\* os.path.normpath(os.path.join(d, r"..\third_party", name))
ThirdPartySource(d, name) == SubSeq(d, 1, Len(d) - 1) \o <<"third_party", name>>

\* localPDB + "x"
TempName(p) == [p EXCEPT ![Len(p)] = @ \o "x"]

\* os.path.exists(p) on the disk contents `disk`
Exists(p, disk) == p \in disk

\* The path rendered as one string, components separated by "\".
RECURSIVE PathStr(_)
PathStr(p) ==
    IF Len(p) = 0 THEN ""
    ELSE IF Len(p) = 1 THEN p[1]
    ELSE p[1] \o "\\" \o PathStr(Tail(p))

\* sep.join(strs), as the sequence of its pieces
RECURSIVE JoinStrs(_, _)
JoinStrs(strs, sep) ==
    IF Len(strs) = 0 THEN <<>>
    ELSE IF Len(strs) = 1 THEN <<strs[1]>>
    ELSE <<strs[1], sep>> \o JoinStrs(Tail(strs), sep)

\* s.count(sub) on a string given as the sequence of its pieces
RECURSIVE Count(_, _)
Count(s, sub) ==
    IF Len(s) = 0 THEN 0
    ELSE (IF s[1] = sub THEN 1 ELSE 0) + Count(Tail(s), sub)

\* guid.replace("-", ""), a guid being the sequence of its groups and dashes
Replace(guid) == SelectSeq(guid, LAMBDA t : t # "-")

\* The concatenation of a sequence of strings.
RECURSIVE Concat(_)
Concat(s) == IF Len(s) = 0 THEN "" ELSE s[1] \o Concat(Tail(s))

\* r"c:\symcache\chrome.dll-%s%sv2.symcache" % (guid, age)
SymcacheFile(guid, age) ==
    <<"c:", "symcache", "chrome.dll-" \o Concat(guid) \o age \o "v2.symcache">>

Range(s) == {s[i] : i \in 1..Len(s)}

\* ----------------------------------------------------------- the inputs
Marker == "chromium-browser-symsrv"
EnvWithMarker == <<"SRV*c:\\symbols*https://", Marker, ".commondatastorage.googleapis.com">>
EnvWithoutMarker == <<"SRV*c:\\symbols*https://msdl.microsoft.com/download/symbols">>

\* os.path.split(sys.argv[0])[0]
ScriptDir == <<"C:", "etw", "bin">>
OtherDir == <<"C:", "traces">>

ThirdPartyFiles == <<"pdbcopy.exe", "dbghelp.dll", "symsrv.dll">>
retrievePath == Join(ScriptDir, "RetrieveSymbols.exe")
pdbcopyPath == Join(ScriptDir, "pdbcopy.exe")

G1 == <<"be90dbc6", "-", "fe31", "-", "4842", "-", "9c72", "-", "7e2ea88f0adf">>
G2 == <<"0f1a2b3c", "-", "aaaa", "-", "bbbb", "-", "cccc", "-", "dddddddddddd">>
G3 == <<"11111111", "-", "2222", "-", "3333", "-", "4444", "-", "555555555555">>
P1 == <<"C:", "b", "out", "chrome.dll.pdb">>
P2 == <<"C:", "b", "out", "chrome_child.dll.pdb">>
P3 == <<"C:", "windows", "ntdll.pdb">>

\* A line of the dump: the target names it contains, whether pdbRe matches
\* it, and the groups pdbRe captures.
LChrome == [words |-> {"chrome.dll"}, rsds |-> TRUE, guid |-> G1, age |-> "1", path |-> P1]
LChild == [words |-> {"chrome_child.dll"}, rsds |-> TRUE, guid |-> G2, age |-> "2", path |-> P2]
LOther == [words |-> {}, rsds |-> TRUE, guid |-> G3, age |-> "1", path |-> P3]
LBad == [words |-> {"chrome.dll"}, rsds |-> FALSE, guid |-> G1, age |-> "1", path |-> P1]
LineKinds == {LChrome, LChild, LOther, LBad}

Traces == UNION {[1..n -> LineKinds] : n \in 0..MaxLines}

\* line.count(sub)
LineCount(line, sub) == IF sub \in line.words THEN 1 ELSE 0

\* Where RetrieveSymbols.exe places a file it found.
SymStore(guid, age, filepart) ==
    <<"c:", "symbols", filepart, Concat(guid) \o age, filepart>>
StaleStore(filepart) == <<"c:", "symbols", filepart, "stale", filepart>>

\* What RetrieveSymbols.exe may print: lines that pdbCachedRe matches
\* (found, with the captured path) and lines it does not.
Noise == [found |-> FALSE, path |-> <<>>]
Found(p) == [found |-> TRUE, path |-> p]
RetrieveOutputs(guid, age, filepart) ==
    { <<>>,
      <<Noise>>,
      <<Noise, Found(SymStore(guid, age, filepart))>>,
      <<Found(StaleStore(filepart)), Found(SymStore(guid, age, filepart)), Noise>> }

\* The names tempfile.mkdtemp() may return, in a fixed order.
TempName_(i) == <<"C:", "tmp", "tmp" \o ToString(i)>>
TempNames == {TempName_(i) : i \in 1..(MaxLines * MaxRuns)}


\* ------------------------------------------------------------- the state
VARIABLES
    run,              \* which run of the script this is
    pc,               \* the statement the script is at
    hasArg,           \* len(sys.argv) >= 2
    cwd,              \* the process's current directory
    parentEnv,        \* _NT_SYMBOL_PATH as each run inherits it
    trace,            \* what xperf -a symcache -dbgid prints for the trace
    fs,               \* the paths that exist on disk
    startFs,          \* the paths that existed when this run started
    environ,          \* os.environ["_NT_SYMBOL_PATH"] of the running process
    stageIdx,         \* position of the staging loop in ThirdPartyFiles
    lineIdx,          \* position of the scan loop in the dump
    tempdirs,
    symcacheFiles,
    localSymbolFiles,
    foundUncached,
    renIdx,           \* position of the rename / restore loops
    error,
    out,              \* the messages printed, by kind
    copies,           \* shutil.copy2 calls that completed: src, dst, overwrote
    retrieveCalls,    \* RetrieveSymbols.exe invocations of this run, and the
                      \* path each reported (empty: none)
    stripCalls,       \* pdbcopy.exe invocations of this run
    buildCalls,       \* xperf -build invocations of this run
    renames,          \* os.rename(localPDB, tempName) calls that completed
    restores,         \* os.rename(tempName, localPDB) calls that completed
    rmtreeCalls,      \* the directories shutil.rmtree was called on
    exitCode          \* the process's exit status, "none" while it runs

vars == <<run, pc, hasArg, cwd, parentEnv, trace, fs, startFs, environ, stageIdx, lineIdx,
          tempdirs, symcacheFiles, localSymbolFiles, foundUncached, renIdx,
          error, out, copies, retrieveCalls, stripCalls, buildCalls, renames,
          restores, rmtreeCalls, exitCode>>

\* The inputs of a run, which the script never assigns.
inputs == <<run, hasArg, cwd, parentEnv, trace, startFs>>
\* The lists the scan loop builds.
scanned == <<tempdirs, symcacheFiles, localSymbolFiles, foundUncached>>
\* The record of the external tools' invocations.
calls == <<retrieveCalls, stripCalls, buildCalls>>

SupportPaths(dir) ==
    {Join(dir, ThirdPartyFiles[i]) : i \in 1..Len(ThirdPartyFiles)}
ThirdPartyPaths ==
    {ThirdPartySource(ScriptDir, ThirdPartyFiles[i]) : i \in 1..Len(ThirdPartyFiles)}

\* Lines 102-104: the line names a target binary and pdbRe matches it.
Matching(line) ==
    /\ (LineCount(line, "chrome.dll") > 0 \/ LineCount(line, "chrome_child.dll") > 0)
    /\ line.rsds

\* Lines 106-108: the cache file the line's symbols are converted to.
LineSymcacheFile(line) == SymcacheFile(Replace(line.guid), line.age)

\* The .symcache files xperf -build may write for the target binaries of
\* the trace.
Buildable(lines) ==
    {LineSymcacheFile(lines[i]) : i \in {j \in 1..Len(lines) : Matching(lines[j])}}

\* A complete installation, with or without the command-line argument and
\* the symbol server in the symbol path.
InitGate ==
    /\ hasArg \in BOOLEAN
    /\ parentEnv \in {EnvWithMarker, EnvWithoutMarker}
    /\ cwd \in {ScriptDir, OtherDir}
    /\ trace = <<LChrome>>
    /\ fs = SupportPaths(ScriptDir) \cup ThirdPartyPaths \cup {retrievePath}

\* Any installation of the support files, over a one-line trace.
InitStaging ==
    /\ hasArg = TRUE
    /\ parentEnv = EnvWithMarker
    /\ cwd \in {ScriptDir, OtherDir}
    /\ trace = <<LChrome>>
    /\ fs \in SUBSET (SupportPaths(ScriptDir) \cup SupportPaths(cwd)
                        \cup ThirdPartyPaths \cup {retrievePath})

\* A complete installation, over any trace and any state of the symbol
\* cache and of the local build output.
InitScan ==
    /\ hasArg = TRUE
    /\ parentEnv = EnvWithMarker
    /\ cwd = ScriptDir
    /\ trace \in Traces
    /\ \E sym \in SUBSET {LineSymcacheFile(LChrome), LineSymcacheFile(LChild),
                            P1, P2, TempName(P1)} :
          fs = SupportPaths(ScriptDir) \cup ThirdPartyPaths \cup {retrievePath} \cup sym

Init ==
    /\ run = 1
    /\ (InitGate \/ InitStaging \/ InitScan)
    \* the state of a process at its first statement (lines 43-48)
    /\ startFs = fs
    /\ pc = "args"
    /\ environ = parentEnv
    /\ stageIdx = 1
    /\ lineIdx = 1
    /\ tempdirs = <<>>
    /\ symcacheFiles = <<>>
    /\ localSymbolFiles = <<>>
    /\ foundUncached = FALSE
    /\ renIdx = 1
    /\ error = FALSE
    /\ out = <<>>
    /\ copies = <<>>
    /\ retrieveCalls = <<>>
    /\ stripCalls = <<>>
    /\ buildCalls = 0
    /\ renames = 0
    /\ restores = 0
    /\ rmtreeCalls = {}
    /\ exitCode = "none"

Exit(msg) ==
    /\ pc' = "done"
    /\ exitCode' = "0"
    /\ out' = Append(out, msg)

\* An exception no handler catches: the traceback is printed and the
\* interpreter exits with status 1.
Raise ==
    /\ pc' = "crashed"
    /\ exitCode' = "1"
    /\ out' = Append(out, "Traceback")


\* ----------------------------------------------------------- the script
\* Lines 49-51: no trace named on the command line.
CheckArgs ==
    /\ pc = "args"
    /\ IF ~hasArg
         THEN Exit("Usage")
         ELSE pc' = "marker" /\ UNCHANGED <<out, exitCode>>
    /\ UNCHANGED <<inputs, fs, environ, stageIdx, lineIdx, scanned, renIdx, error,
                   copies, calls, renames, restores, rmtreeCalls>>

\* Line 54: the symbol server is named in the symbol path.
HasMarker(symbolPath) == Count(symbolPath, Marker) # 0

\* Lines 53-56.
CheckMarker ==
    /\ pc = "marker"
    /\ IF ~HasMarker(environ)
         THEN Exit("No symbol stripping needed")
         ELSE pc' = "stage" /\ UNCHANGED <<out, exitCode>>
    /\ UNCHANGED <<inputs, fs, environ, stageIdx, lineIdx, scanned, renIdx, error,
                   copies, calls, renames, restores, rmtreeCalls>>

\* Line 66: the test that decides whether a support file is copied.  The
\* name is relative, so it is looked up in the current directory.
StageNeeded(name, dir, disk) == ~Exists(Join(dir, name), disk)

\* Lines 65-70, one iteration: shutil.copy2 raises IOError when the source
\* is missing and replaces the destination when it exists.
Stage ==
    /\ pc = "stage"
    /\ IF stageIdx > Len(ThirdPartyFiles)
         THEN /\ pc' = "tools"
              /\ UNCHANGED <<fs, stageIdx, copies, out, exitCode>>
         ELSE LET third_party == ThirdPartyFiles[stageIdx]
                  source == ThirdPartySource(ScriptDir, third_party)
                  dest == Join(ScriptDir, third_party)
              IN  IF ~StageNeeded(third_party, cwd, fs)
                    THEN /\ stageIdx' = stageIdx + 1
                         /\ UNCHANGED <<pc, fs, copies, out, exitCode>>
                    ELSE IF ~Exists(source, fs)
                      THEN Raise /\ UNCHANGED <<fs, stageIdx, copies>>
                      ELSE /\ fs' = fs \cup {dest}
                           /\ copies' = Append(copies,
                                  [src |-> source, dst |-> dest,
                                   overwrote |-> Exists(dest, fs)])
                           /\ stageIdx' = stageIdx + 1
                           /\ UNCHANGED <<pc, out, exitCode>>
    /\ UNCHANGED <<inputs, environ, lineIdx, scanned, renIdx, error, calls,
                   renames, restores, rmtreeCalls>>

\* Lines 72-78.
CheckTools ==
    /\ pc = "tools"
    /\ IF ~Exists(pdbcopyPath, fs)
         THEN Exit("pdbcopy.exe not found")
         ELSE IF ~Exists(retrievePath, fs)
           THEN Exit("RetrieveSymbols.exe not found")
           ELSE pc' = "scan" /\ out' = Append(out, "Pre-translating") /\ UNCHANGED exitCode
    /\ UNCHANGED <<inputs, fs, environ, stageIdx, lineIdx, scanned, renIdx, error,
                   copies, calls, renames, restores, rmtreeCalls>>

\* Mutant of CacheSkip: the existence test is dropped.
CacheSkipNever(symcacheFile, disk) == FALSE

\* Line 109: the line's symbols are converted already.
CacheSkip(symcacheFile, disk) == Exists(symcacheFile, disk)

\* Lines 116-123: the path of the last line pdbCachedRe matches, None (the
\* empty path) when it matches none.
RECURSIVE RetrievedPath(_)
RetrievedPath(output) ==
    IF Len(output) = 0 THEN <<>>
    ELSE LET last == output[Len(output)]
         IN  IF last.found THEN last.path
             ELSE RetrievedPath(SubSeq(output, 1, Len(output) - 1))

\* Mutant of LocalFallback: the reported path is used without testing that
\* it exists.
LocalFallbackUnchecked(pdbCachePath, path, disk) == pdbCachePath = <<>>

\* Lines 124-126: the locally built symbols are used.
LocalFallback(pdbCachePath, path, disk) ==
    pdbCachePath = <<>> /\ Exists(path, disk)

\* Line 130: tempfile.mkdtemp() creates a directory that did not exist.  Its
\* names are interchangeable: the model takes the first one that is unused.
Mkdtemp(disk) ==
    {TempName_(i) : i \in {j \in 1..(MaxLines * MaxRuns) :
                              /\ TempName_(j) \notin disk
                              /\ \A k \in 1..(j - 1) : TempName_(k) \in disk}}

\* Mutant of StripSource: the path the trace reports is stripped.
StripSourceReported(pdbCachePath, path) == path

\* Line 134: the file pdbcopy.exe is given to strip.
StripSource(pdbCachePath, path) == pdbCachePath

\* Lines 101-137, one iteration of the scan loop.
ScanLine ==
    /\ pc = "scan"
    /\ lineIdx <= Len(trace)
    /\ lineIdx' = lineIdx + 1
    /\ LET line == trace[lineIdx]
           guid == Replace(line.guid)
           age == line.age
           path == line.path
           filepart == Split(path)[2]
           symcacheFile == LineSymcacheFile(line)
       IN  IF ~Matching(line) \/ CacheSkip(symcacheFile, fs)
             THEN UNCHANGED <<fs, scanned, out, retrieveCalls, stripCalls>>
             ELSE \E output \in RetrieveOutputs(guid, age, filepart) :
                  LET retrieved == RetrievedPath(output)
                      local == LocalFallback(retrieved, path, fs)
                      pdbCachePath == IF local THEN path ELSE retrieved
                  IN  /\ foundUncached' = TRUE
                      /\ symcacheFiles' = Append(symcacheFiles, symcacheFile)
                      /\ retrieveCalls' = Append(retrieveCalls,
                             [line |-> lineIdx, guid |-> guid, age |-> age,
                              filepart |-> filepart, found |-> retrieved])
                      /\ localSymbolFiles' = IF local
                                               THEN Append(localSymbolFiles, path)
                                               ELSE localSymbolFiles
                      /\ IF pdbCachePath # <<>>
                           THEN \E tempdir \in Mkdtemp(fs) :
                                  /\ fs' = fs \cup {tempdir}
                                  /\ tempdirs' = Append(tempdirs, tempdir)
                                  /\ stripCalls' = Append(stripCalls,
                                        [line |-> lineIdx,
                                         src |-> StripSource(pdbCachePath, path),
                                         dst |-> Join(tempdir, Split(pdbCachePath)[2])])
                                  /\ out' = out \o <<"Found uncached reference", "Copying PDB">>
                           ELSE /\ out' = out \o <<"Found uncached reference",
                                                   "Failed to retrieve symbols">>
                                /\ UNCHANGED <<fs, tempdirs, stripCalls>>
    /\ UNCHANGED <<inputs, pc, environ, stageIdx, renIdx, error, copies, buildCalls,
                   renames, restores, rmtreeCalls, exitCode>>

\* Mutant of NeedRegen: the conversion runs whatever the scan found.
NeedRegenAlways(dirs) == TRUE

\* Line 139: there is something to convert.
NeedRegen(dirs) == dirs # <<>>

\* Mutant of NewSymbolPath: only the last directory is kept.
NewSymbolPathLast(dirs) == <<PathStr(dirs[Len(dirs)])>>

\* Line 140: ";".join(tempdirs)
NewSymbolPath(dirs) == JoinStrs([i \in 1..Len(dirs) |-> PathStr(dirs[i])], ";")

\* Lines 139-142 and 167-171: the end of the scan loop.
EndScan ==
    /\ pc = "scan"
    /\ lineIdx > Len(trace)
    /\ IF NeedRegen(tempdirs)
         THEN /\ environ' = NewSymbolPath(tempdirs)
              /\ out' = Append(out, "Converting to symcache files")
              /\ pc' = "rename"
              /\ UNCHANGED exitCode
         ELSE /\ Exit(IF foundUncached THEN "No PDBs copied" ELSE "No uncached PDBS found")
              /\ UNCHANGED environ
    /\ UNCHANGED <<inputs, fs, stageIdx, lineIdx, scanned, renIdx, error, copies,
                   calls, renames, restores, rmtreeCalls>>

\* os.rename(src, dst) on Windows: raises when src is missing or dst exists.
RenameFails(src, dst, disk) == ~Exists(src, disk) \/ Exists(dst, disk)

\* Lines 143-146, one iteration.
Rename ==
    /\ pc = "rename"
    /\ renIdx <= Len(localSymbolFiles)
    /\ LET localPDB == localSymbolFiles[renIdx]
           tempName == TempName(localPDB)
       IN  IF RenameFails(localPDB, tempName, fs)
             THEN Raise /\ UNCHANGED <<fs, renIdx, renames>>
             ELSE /\ fs' = (fs \ {localPDB}) \cup {tempName}
                  /\ renIdx' = renIdx + 1
                  /\ renames' = renames + 1
                  /\ out' = Append(out, "Renaming")
                  /\ UNCHANGED <<pc, exitCode>>
    /\ UNCHANGED <<inputs, environ, stageIdx, lineIdx, scanned, error, copies, calls,
                   restores, rmtreeCalls>>

\* Lines 147-150: xperf -build writes any of the cache files of the trace;
\* the script learns nothing from its output.
Build ==
    /\ pc = "rename"
    /\ renIdx > Len(localSymbolFiles)
    /\ \E written \in SUBSET Buildable(trace) : fs' = fs \cup written
    /\ buildCalls' = buildCalls + 1
    /\ pc' = "restore"
    /\ renIdx' = 1
    /\ UNCHANGED <<inputs, environ, stageIdx, lineIdx, scanned, error, out, copies,
                   retrieveCalls, stripCalls, renames, restores, rmtreeCalls, exitCode>>

\* Lines 151-153, one iteration.
Restore ==
    /\ pc = "restore"
    /\ renIdx <= Len(localSymbolFiles)
    /\ LET localPDB == localSymbolFiles[renIdx]
           tempName == TempName(localPDB)
       IN  IF RenameFails(tempName, localPDB, fs)
             THEN Raise /\ UNCHANGED <<fs, renIdx, restores>>
             ELSE /\ fs' = (fs \ {tempName}) \cup {localPDB}
                  /\ renIdx' = renIdx + 1
                  /\ restores' = restores + 1
                  /\ UNCHANGED <<pc, out, exitCode>>
    /\ UNCHANGED <<inputs, environ, stageIdx, lineIdx, scanned, error, copies, calls,
                   renames, rmtreeCalls>>

\* Mutant of VerifyError: each iteration overwrites the flag, so only the
\* last file decides.
VerifyErrorLast(files, disk) ==
    Len(files) > 0 /\ ~Exists(files[Len(files)], disk)

\* Lines 154-160: some expected cache file was not generated.
VerifyError(files, disk) == \E i \in 1..Len(files) : ~Exists(files[i], disk)

\* Lines 154-160.
Verify ==
    /\ pc = "restore"
    /\ renIdx > Len(localSymbolFiles)
    /\ error' = VerifyError(symcacheFiles, fs)
    /\ out' = out \o [i \in 1..Len(symcacheFiles) |->
                         IF Exists(symcacheFiles[i], fs) THEN "generated"
                         ELSE "Error: not generated"]
    /\ pc' = "cleanup"
    /\ UNCHANGED <<inputs, fs, environ, stageIdx, lineIdx, scanned, renIdx, copies,
                   calls, renames, restores, rmtreeCalls, exitCode>>

\* Lines 161-166: shutil.rmtree(dir, ignore_errors=True) removes the
\* directory or fails silently.
Cleanup ==
    /\ pc = "cleanup"
    /\ IF error
         THEN /\ out' = Append(out, "Retaining PDBs")
              /\ UNCHANGED <<fs, rmtreeCalls>>
         ELSE /\ rmtreeCalls' = Range(tempdirs)
              /\ \E removed \in SUBSET Range(tempdirs) : fs' = fs \ removed
              /\ UNCHANGED out
    /\ pc' = "done"
    /\ exitCode' = "0"
    /\ UNCHANGED <<inputs, environ, stageIdx, lineIdx, scanned, renIdx, error, copies,
                   calls, renames, restores>>

\* The script is run again over the same trace, in the same directory and
\* environment, on the disk the previous run left.
Rerun ==
    /\ pc \in {"done", "crashed"}
    /\ run < MaxRuns
    /\ run' = run + 1
    /\ UNCHANGED <<hasArg, cwd, parentEnv, trace, fs>>
    /\ startFs' = fs
    /\ pc' = "args"
    /\ environ' = parentEnv
    /\ stageIdx' = 1
    /\ lineIdx' = 1
    /\ tempdirs' = <<>>
    /\ symcacheFiles' = <<>>
    /\ localSymbolFiles' = <<>>
    /\ foundUncached' = FALSE
    /\ renIdx' = 1
    /\ error' = FALSE
    /\ out' = <<>>
    /\ copies' = <<>>
    /\ retrieveCalls' = <<>>
    /\ stripCalls' = <<>>
    /\ buildCalls' = 0
    /\ renames' = 0
    /\ restores' = 0
    /\ rmtreeCalls' = {}
    /\ exitCode' = "none"

Next ==
    \/ CheckArgs
    \/ CheckMarker
    \/ Stage
    \/ CheckTools
    \/ ScanLine
    \/ EndScan
    \/ Rename
    \/ Build
    \/ Restore
    \/ Verify
    \/ Cleanup
    \/ Rerun

Spec == Init /\ [][Next]_vars


\* ----------------------------------------------------------- properties
\* The run has ended: normally, by sys.exit, or by an uncaught exception.
Ended == pc \in {"done", "crashed"}

\* The lines of the dump the scan loop looks at further.
MatchingLines == {i \in 1..Len(trace) : Matching(trace[i])}

\* C1: when a run ends, every local symbol file that was renamed to
\* path + "x" has been renamed back: as many restores as renames, and no
\* recorded local symbol file is left under its renamed name only.
C1_RenamesRestored ==
    Ended =>
        /\ renames = restores
        /\ \A i \in 1..Len(localSymbolFiles) :
              Exists(localSymbolFiles[i], startFs) => Exists(localSymbolFiles[i], fs)

\* C2: at the end of a run that created temporary directories, rmtree was
\* called on every one of them if every file of symcacheFiles exists, and on
\* none of them (all are still on disk) if some file is missing.
C2_CleanupAllOrNothing ==
    (Ended /\ tempdirs # <<>>) =>
        IF \A i \in 1..Len(symcacheFiles) : symcacheFiles[i] \in fs
          THEN rmtreeCalls = Range(tempdirs)
          ELSE rmtreeCalls = {} /\ Range(tempdirs) \subseteq fs

C2_Witness ==
    /\ pc = "done"
    /\ Len(tempdirs) = 2
    /\ rmtreeCalls = Range(tempdirs)
    /\ Range(tempdirs) \cap fs = {}

\* C3: in a second or later run over the same trace that starts with the
\* cache file of every matching line on disk, RetrieveSymbols.exe,
\* pdbcopy.exe and xperf -build are never invoked, no temporary directory is
\* created, no file is renamed and _NT_SYMBOL_PATH keeps its value.
C3_SecondRunIdle ==
    (run >= 2 /\ \A i \in MatchingLines : LineSymcacheFile(trace[i]) \in startFs) =>
        /\ retrieveCalls = <<>>
        /\ stripCalls = <<>>
        /\ buildCalls = 0
        /\ tempdirs = <<>>
        /\ (fs \cap TempNames) \subseteq startFs
        /\ renames = 0
        /\ environ = parentEnv

\* The second run has ended over a trace with two matching lines, all
\* cached, after a first run that converted them (one of its temporary
\* directories survived a failed rmtree).
C3_Witness ==
    /\ run = 2
    /\ pc = "done"
    /\ Cardinality(MatchingLines) = 2
    /\ \A i \in MatchingLines : LineSymcacheFile(trace[i]) \in startFs
    /\ TempName_(1) \in startFs

\* C4: a scan step over a matching line whose cache file exists invokes
\* neither RetrieveSymbols.exe nor pdbcopy.exe, creates no temporary
\* directory, records no expected cache file and no local symbol file, and
\* moves on to the next line.
C4_CachedLineSkipped ==
    [][(/\ pc = "scan"
        /\ lineIdx <= Len(trace)
        /\ Matching(trace[lineIdx])
        /\ LineSymcacheFile(trace[lineIdx]) \in fs)
       => /\ UNCHANGED <<retrieveCalls, stripCalls, tempdirs, symcacheFiles,
                         localSymbolFiles, fs>>
          /\ pc' = "scan"
          /\ lineIdx' = lineIdx + 1]_vars

\* The second line was cached and skipped; the first was not and was
\* processed.
C4_Witness ==
    /\ pc = "scan"
    /\ lineIdx = 3
    /\ Matching(trace[2])
    /\ LineSymcacheFile(trace[2]) \in fs
    /\ Len(retrieveCalls) = 1
    /\ retrieveCalls[1].line = 1
    /\ Len(tempdirs) = 1

\* C5: a scan step whose retrieval reports a path invokes pdbcopy.exe once,
\* on the reported path, with a destination in a directory that did not
\* exist before the step and that no other entry uses, and records no local
\* symbol file; pdbcopy.exe is invoked at most once per entry.
C5_StripRetrieved ==
    [][(/\ Len(retrieveCalls') = Len(retrieveCalls) + 1
        /\ retrieveCalls'[Len(retrieveCalls')].found # <<>>)
       => LET r == retrieveCalls'[Len(retrieveCalls')]
              c == stripCalls'[Len(stripCalls')]
              dir == Split(c.dst)[1]
          IN  /\ Len(stripCalls') = Len(stripCalls) + 1
              /\ c.line = r.line
              /\ c.src = r.found
              /\ c.dst = Join(dir, Split(r.found)[2])
              /\ dir \notin fs
              /\ dir \in fs'
              /\ tempdirs' = Append(tempdirs, dir)
              /\ \A i \in 1..Len(stripCalls) :
                    /\ Split(stripCalls[i].dst)[1] # dir
                    /\ stripCalls[i].line # r.line
              /\ localSymbolFiles' = localSymbolFiles]_vars

\* Two entries were processed: the first fell back to the local file, the
\* second was retrieved and stripped.
C5_Witness ==
    /\ Len(retrieveCalls) = 2
    /\ retrieveCalls[1].found = <<>>
    /\ retrieveCalls[2].found # <<>>
    /\ Len(stripCalls) = 2
    /\ Len(localSymbolFiles) = 1

\* C6: a scan step whose retrieval reports no path, on a line whose reported
\* path does not exist, prints the failure message, creates no temporary
\* directory, invokes no pdbcopy.exe, records no local symbol file, and the
\* scan goes on with the next line.
C6_FailedEntry ==
    [][(/\ Len(retrieveCalls') = Len(retrieveCalls) + 1
        /\ retrieveCalls'[Len(retrieveCalls')].found = <<>>
        /\ trace[lineIdx].path \notin fs)
       => /\ out'[Len(out')] = "Failed to retrieve symbols"
          /\ UNCHANGED <<tempdirs, stripCalls, localSymbolFiles, fs>>
          /\ pc' = "scan"
          /\ lineIdx' = lineIdx + 1
          /\ exitCode' = "none"]_vars

\* The first entry failed and the second, after it, was stripped.
C6_Witness ==
    /\ Len(retrieveCalls) = 2
    /\ retrieveCalls[1].found = <<>>
    /\ trace[1].path \notin fs
    /\ TempName(trace[1].path) \notin fs
    /\ Len(stripCalls) = 1
    /\ stripCalls[1].line = retrieveCalls[2].line

\* C7: every run ends with exit status 0, without an uncaught exception.
C7_ExitsZero == Ended => (pc = "done" /\ exitCode = "0")

\* C8: when the scan is over, the expected cache files and the temporary
\* directories correspond one to one.
C8_OneToOne ==
    (pc = "scan" /\ lineIdx > Len(trace)) => Len(symcacheFiles) = Len(tempdirs)

\* _NT_SYMBOL_PATH is exactly the temporary directories joined by ";".
SymbolPathIsTempdirs ==
    /\ Len(environ) = 2 * Len(tempdirs) - 1
    /\ \A i \in 1..Len(tempdirs) : environ[2 * i - 1] = PathStr(tempdirs[i])
    /\ \A i \in 1..(Len(tempdirs) - 1) : environ[2 * i] = ";"

\* Every recorded local symbol file is under its renamed name.
AllRenamed ==
    /\ renames = Len(localSymbolFiles)
    /\ \A i \in 1..Len(localSymbolFiles) :
          /\ localSymbolFiles[i] \notin fs
          /\ TempName(localSymbolFiles[i]) \in fs

\* C9: xperf -build runs at most once per run and only with a temporary
\* directory; it runs after the scan of all lines, with _NT_SYMBOL_PATH set
\* to the joined temporary directories and every local symbol file renamed;
\* the existence checks come after every rename is reversed, the cleanup
\* after the checks; nothing is retrieved or stripped once it has run.
C9_RegenerationOrder ==
    [][/\ buildCalls' <= 1
       /\ (buildCalls' = buildCalls + 1) =>
             /\ tempdirs # <<>>
             /\ lineIdx > Len(trace)
             /\ SymbolPathIsTempdirs
             /\ AllRenamed
             /\ restores = 0
       /\ (pc' = "cleanup" /\ pc # "cleanup") =>
             /\ buildCalls = 1
             /\ restores = Len(localSymbolFiles)
             /\ \A i \in 1..Len(localSymbolFiles) : localSymbolFiles[i] \in fs
             /\ rmtreeCalls = {}
       /\ (rmtreeCalls' # rmtreeCalls /\ run' = run) => pc = "cleanup"
       /\ (buildCalls = 1 /\ run' = run) =>
             UNCHANGED <<retrieveCalls, stripCalls, tempdirs, symcacheFiles>>]_vars

C9_Witness ==
    /\ pc = "done"
    /\ buildCalls = 1
    /\ Len(tempdirs) = 2
    /\ Len(localSymbolFiles) = 1
    /\ restores = 1
    /\ Len(retrieveCalls) = 2

\* C10: a support file is copied into the script directory only if it is
\* absent from the script directory, and only after the marker check passed.
C10_StagingOverwritesNothing ==
    /\ \A i \in 1..Len(copies) : ~copies[i].overwrote
    /\ copies # <<>> => HasMarker(parentEnv)

=============================================================================
